---- MODULE Spec2Model ----
(***************************************************************************)
(* Model of bUnitTests.h v1.3.0: the registry filled by the UnitTest       *)
(* constructors during static initialisation, and main():                  *)
(*   print_info(); early return; run_tests(); print_summary(); return.     *)
(* std::cout is modelled by its stream buffer pointer (rdbuf), its badbit  *)
(* and the two sinks it can point at (the console and the log file).       *)
(***************************************************************************)
EXTENDS Integers, Sequences, FiniteSets, TLC

\* ---------------------------------------------------------------- bounds
MaxRegs == 2                       \* number of bTEST_FUNCTION uses linked in

MaxSummaries == 2                  \* calls of print_summary() in a row
MaxPathLen == 3                    \* longest __FILE__ tried, in characters
MaxAsserts == 2                    \* most bTEST_ASSERTs in one test function

Groups == {"ungrouped", "g1"}      \* group names used by the test authors
Names  == {"t1", "t2"}             \* test names used by the test authors
Funcs  == 1..MaxRegs               \* fName##_TestFunc of the i-th registration

\* What a test function does when it is called.
\*   pass        returns normally, prints nothing
\*   print_pass  prints to std::cout, returns normally
\*   assert      prints to std::cout, then a bTEST_ASSERT fails
\*   stdexc      throws some other exception derived from std::exception
\*   unknown     throws something that is not a std::exception
\*   hang        never returns
Behaviours == {"pass", "print_pass", "assert", "stdexc", "unknown", "hang"}

Prints(b)  == b \in {"print_pass", "assert"}
Returns(b) == b \in {"pass", "print_pass"}
Throws(b)  == b \in {"assert", "stdexc"}

\* ------------------------------------------------------ program constants
pass == 0
fail == 0 - 1

\* ----------------------------------------------------------------- state
VARIABLES
    pc,           \* position of the single thread of control
    logEnabled,   \* TRUE unless bTESTS_NO_LOG is defined (fixed at build time)
    s_tests,      \* get_tests(): group -> (name -> test function)
    regs,         \* the UnitTest constructions so far, in execution order
    g_successes,  \* number of passed tests
    first,        \* get_number_of_tests(): static bool first
    numTests,     \* get_number_of_tests(): static size_t numTests
    rdbuf,        \* std::cout.rdbuf(): "console", "log" or "null"
    coutBad,      \* badbit of std::cout
    coutBuffer,   \* run_tests(): saved stream buffer
    sumBuffer,    \* print_summary(): saved stream buffer
    idx,          \* run_tests(): running index
    curGroup,     \* group of the current outer-loop iteration
    curName,      \* name of the current inner-loop iteration
    groupsDone,   \* groups the outer loop has already visited
    testsDone,    \* names of curGroup the inner loop has already visited
    console,      \* what has been written to the console buffer
    g_testsLog,   \* what has been written to the log file
    invoked,      \* the calls test() made so far, with what each did
    e_what,       \* e.what() of the exception being handled, <<"none">> otherwise
    exitCode,     \* <<value returned by main>>, empty before main returns
    groupArg,     \* group argument of the UnitTest constructor running last
    a_file,       \* __FILE__ of the test function under study
    a_line,       \* __LINE__ of its first bTEST_ASSERT
    a_body,       \* the values of the expressions of its bTEST_ASSERTs, in order
    a_pos,        \* the bTEST_ASSERT it executes next
    a_result,     \* "idle", "running", "returned" or "thrown"
    a_what        \* what() of the exception it threw

vars == <<pc, logEnabled, s_tests, regs, g_successes, first, numTests, rdbuf,
          coutBad, coutBuffer, sumBuffer, idx, curGroup, curName, groupsDone,
          testsDone, console, g_testsLog, invoked, e_what, exitCode,
          groupArg, a_file, a_line, a_body, a_pos, a_result, a_what>>

\* The variables of a single test function executing its assertions.
avars == <<a_file, a_line, a_body, a_pos, a_result, a_what>>

\* ------------------------------------------------------------- containers
EmptyMap == [k \in {} |-> k]

contains(m, k) == k \in DOMAIN m

size(m) == Cardinality(DOMAIN m)

insert_or_assign(m, k, v) ==
    [x \in (DOMAIN m) \cup {k} |-> IF x = k THEN v ELSE m[x]]

RECURSIVE SumSizes(_, _)
SumSizes(tests, gs) ==
    IF gs = {} THEN 0
    ELSE LET g == CHOOSE x \in gs : TRUE
         IN  size(tests[g]) + SumSizes(tests, gs \ {g})

\* All (group, name) keys present in a registry.
Entries(tests) ==
    {e \in Groups \X Names : contains(tests, e[1]) /\ contains(tests[e[1]], e[2])}

\* --------------------------------------------------------------- std::cout
\* A line is <<dest, kind, ...>>: dest is the channel the author of the line
\* meant it for ("P" primary/console, "L" log file, "T" output of a test).
\* Where it lands is decided by the stream buffer std::cout points at.
ConsoleAfter(rd, bad, con, lines) ==
    IF rd = "console" /\ ~bad THEN con \o lines ELSE con

LogAfter(rd, bad, lg, lines) ==
    IF rd = "log" /\ ~bad THEN lg \o lines ELSE lg

print_line_separator(dest) == <<dest, "separator">>

\* ------------------------------------------------------------- std::string
\* A string is a sequence of one-character strings; positions count from 0.
bFILE_PATH_SEPARATOR == "/"

npos == 0 - 1

Digits == <<"0", "1", "2", "3", "4", "5", "6", "7", "8", "9">>

RECURSIVE to_string(_)
to_string(n) ==
    IF n < 10 THEN <<Digits[n + 1]>>
    ELSE to_string(n \div 10) \o <<Digits[(n % 10) + 1]>>

find_last_of(str, ch) ==
    LET hits == {i \in 1..Len(str) : str[i] = ch}
    IN  IF hits = {} THEN npos
        ELSE (CHOOSE i \in hits : \A j \in hits : j <= i) - 1

substr(str, pos) == SubSeq(str, pos + 1, Len(str))

\* --------------------------------------------------------------- bTEST_ASSERT
\* if (!(expr)) ...
\* (slip: the negation left out)
AssertThrows_inverted(expr) == expr

AssertThrows(expr) == ~expr

\* The string handed to std::exception: __FILE__ ":" __LINE__ from the last
\* separator on.
ErrorString(file, line) ==
    LET errorString == file \o <<":">> \o to_string(line)
        lastSeparator == find_last_of(errorString, bFILE_PATH_SEPARATOR)
    IN  substr(errorString, IF lastSeparator = npos THEN 0 ELSE lastSeparator)

\* Where the test functions of the run live: function i asserts in file
\* "s/t" at line 10 + i.
TestFile == <<"s", "/", "t">>

TestLine(func) == 10 + func

\* e.what() of the exception a test function throws.
What(b, func) ==
    IF b = "assert" THEN ErrorString(TestFile, TestLine(func))
    ELSE <<"e", "r", "r">>

\* ------------------------------------------------------ get_number_of_tests
\* (slip: one per group instead of the group's size)
get_number_of_tests_per_group ==
    IF first THEN numTests + size(s_tests) ELSE numTests

\* (slip: the static total without the 'first' guard, every call adds again)
get_number_of_tests_accumulating ==
    numTests + SumSizes(s_tests, DOMAIN s_tests)

get_number_of_tests ==
    IF first THEN numTests + SumSizes(s_tests, DOMAIN s_tests) ELSE numTests

\* ------------------------------------------------------------------- Init
Init ==
    /\ pc = "static_init"
    /\ logEnabled \in BOOLEAN
    /\ s_tests = EmptyMap
    /\ regs = <<>>
    /\ g_successes = 0
    /\ first = TRUE
    /\ numTests = 0
    /\ rdbuf = "console"
    /\ coutBad = FALSE
    /\ coutBuffer = "none"
    /\ sumBuffer = "none"
    /\ idx = 0
    /\ curGroup = "none"
    /\ curName = "none"
    /\ groupsDone = {}
    /\ testsDone = {}
    /\ console = <<>>
    /\ g_testsLog = <<>>
    /\ invoked = <<>>
    /\ e_what = <<"none">>
    /\ exitCode = <<>>
    /\ groupArg = "none"
    /\ a_file = <<>>
    /\ a_line = 0
    /\ a_body = <<>>
    /\ a_pos = 0
    /\ a_result = "idle"
    /\ a_what = <<>>

\* -------------------------------------------------------- UnitTest::UnitTest
\* (slip: insert instead of insert_or_assign, the first registration stays)
RegistryAfter_insert(tests, name, func, group) ==
    LET withGroup == IF ~contains(tests, group)
                     THEN insert_or_assign(tests, group, EmptyMap)
                     ELSE tests
    IN  IF contains(withGroup[group], name) THEN withGroup
        ELSE [withGroup EXCEPT ![group] = insert_or_assign(@, name, func)]

\* (slip: the name alone is the key, as before groups were introduced)
RegistryAfter_by_name(tests, name, func, group) ==
    LET holders == {g \in DOMAIN tests : contains(tests[g], name)}
        withGroup == IF ~contains(tests, group)
                     THEN insert_or_assign(tests, group, EmptyMap)
                     ELSE tests
    IN  IF holders # {}
        THEN [g \in DOMAIN tests |->
                 IF g \in holders THEN insert_or_assign(tests[g], name, func)
                 ELSE tests[g]]
        ELSE [withGroup EXCEPT ![group] = insert_or_assign(@, name, func)]

\* (slip: the group's map is emptied on every registration, not only when
\* the group is new)
RegistryAfter_reset_group(tests, name, func, group) ==
    LET withGroup == insert_or_assign(tests, group, EmptyMap)
    IN  [withGroup EXCEPT ![group] = insert_or_assign(@, name, func)]

\* (slip: 'else' before the insertion, a new group is created empty and the
\* test is only inserted when the group was already there)
RegistryAfter_else(tests, name, func, group) ==
    IF ~contains(tests, group)
    THEN insert_or_assign(tests, group, EmptyMap)
    ELSE [tests EXCEPT ![group] = insert_or_assign(@, name, func)]

RegistryAfter(tests, name, func, group) ==
    LET withGroup == IF ~contains(tests, group)
                     THEN insert_or_assign(tests, group, EmptyMap)
                     ELSE tests
    IN  [withGroup EXCEPT ![group] = insert_or_assign(@, name, func)]

\* The constructor's third parameter: const char *group = "ungrouped".
\* NoGroupArg stands for a call that leaves the argument out.
NoGroupArg == "<no group argument>"

\* (slip: another default than the documented one)
DefaultGroup_empty == ""

DefaultGroup == "ungrouped"

GroupParam(arg) == IF arg = NoGroupArg THEN DefaultGroup ELSE arg

Register(name, func, arg) ==
    /\ pc = "static_init"
    /\ Len(regs) < MaxRegs
    /\ func = Len(regs) + 1
    /\ groupArg' = arg
    /\ s_tests' = RegistryAfter(s_tests, name, func, GroupParam(arg))
    /\ regs' = Append(regs, [name |-> name, func |-> func, group |-> GroupParam(arg)])
    /\ UNCHANGED <<avars, pc, logEnabled, g_successes, first, numTests, rdbuf, coutBad,
                   coutBuffer, sumBuffer, idx, curGroup, curName, groupsDone,
                   testsDone, console, g_testsLog, invoked, e_what, exitCode>>

\* ---------------------------------------------------------------------- main
StartMain ==
    /\ pc = "static_init"
    /\ pc' = "print_info"
    /\ groupArg' = "none"
    /\ UNCHANGED <<avars, logEnabled, s_tests, regs, g_successes, first, numTests,
                   rdbuf, coutBad, coutBuffer, sumBuffer, idx, curGroup,
                   curName, groupsDone, testsDone, console, g_testsLog,
                   invoked, e_what, exitCode>>

print_info ==
    /\ pc = "print_info"
    /\ console' = ConsoleAfter(rdbuf, coutBad, console,
                     << print_line_separator("P"),
                        <<"P", "info">>,
                        <<"P", "found", get_number_of_tests, size(s_tests)>>,
                        print_line_separator("P") >>)
    /\ g_testsLog' = LogAfter(rdbuf, coutBad, g_testsLog,
                     << print_line_separator("P"),
                        <<"P", "info">>,
                        <<"P", "found", get_number_of_tests, size(s_tests)>>,
                        print_line_separator("P") >>)
    /\ numTests' = get_number_of_tests
    /\ first' = FALSE
    /\ pc' = "check_empty"
    /\ UNCHANGED <<avars, groupArg, logEnabled, s_tests, regs, g_successes, rdbuf, coutBad,
                   coutBuffer, sumBuffer, idx, curGroup, curName, groupsDone,
                   testsDone, invoked, e_what, exitCode>>

\* (slip: no early return)
NoTestsFound_never == FALSE

NoTestsFound == size(s_tests) = 0

\* (slip: the empty registry falls through to the summary)
CheckEmpty_summary ==
    /\ pc = "check_empty"
    /\ pc' = IF size(s_tests) = 0 THEN "print_summary" ELSE "run_tests"
    /\ UNCHANGED <<avars, groupArg, logEnabled, s_tests, regs, g_successes,
                   first, numTests, rdbuf, coutBad, coutBuffer, sumBuffer, idx,
                   curGroup, curName, groupsDone, testsDone, console,
                   g_testsLog, invoked, e_what, exitCode>>

CheckEmpty ==
    /\ pc = "check_empty"
    /\ IF NoTestsFound
       THEN /\ exitCode' = <<pass>>
            /\ pc' = "exited"
       ELSE /\ exitCode' = exitCode
            /\ pc' = "run_tests"
    /\ UNCHANGED <<avars, groupArg, logEnabled, s_tests, regs, g_successes, first, numTests,
                   rdbuf, coutBad, coutBuffer, sumBuffer, idx, curGroup,
                   curName, groupsDone, testsDone, console, g_testsLog,
                   invoked, e_what>>

\* ----------------------------------------------------------------- run_tests
run_tests_begin ==
    /\ pc = "run_tests"
    /\ idx' = 0
    /\ coutBuffer' = rdbuf
    /\ console' = ConsoleAfter(rdbuf, coutBad, console, << <<"P", "running">> >>)
    /\ g_testsLog' = LogAfter(rdbuf, coutBad, g_testsLog, << <<"P", "running">> >>)
    /\ groupsDone' = {}
    /\ pc' = "group_loop"
    /\ UNCHANGED <<avars, groupArg, logEnabled, s_tests, regs, g_successes, first, numTests,
                   rdbuf, coutBad, sumBuffer, curGroup, curName, testsDone,
                   invoked, e_what, exitCode>>

\* for (const auto &[group, tests] : get_tests()): the enumeration order of an
\* unordered_map is unspecified, so the next group is any unvisited one.
GroupNext(group) ==
    /\ pc = "group_loop"
    /\ group \in (DOMAIN s_tests) \ groupsDone
    /\ curGroup' = group
    /\ testsDone' = {}
    /\ console' = ConsoleAfter(rdbuf, coutBad, console, << <<"P", "group", group>> >>)
    /\ g_testsLog' = LogAfter(rdbuf, coutBad, g_testsLog, << <<"P", "group", group>> >>)
    /\ pc' = IF logEnabled THEN "group_log" ELSE "test_loop"
    /\ UNCHANGED <<avars, groupArg, logEnabled, s_tests, regs, g_successes, first, numTests,
                   rdbuf, coutBad, coutBuffer, sumBuffer, idx, curName,
                   groupsDone, invoked, e_what, exitCode>>

GroupLogHeader ==
    /\ pc = "group_log"
    /\ rdbuf' = "log"
    /\ console' = ConsoleAfter("log", coutBad, console, << <<"L", "group", curGroup>> >>)
    /\ g_testsLog' = LogAfter("log", coutBad, g_testsLog, << <<"L", "group", curGroup>> >>)
    /\ pc' = "group_log_restore"
    /\ UNCHANGED <<avars, groupArg, logEnabled, s_tests, regs, g_successes, first, numTests,
                   coutBad, coutBuffer, sumBuffer, idx, curGroup, curName,
                   groupsDone, testsDone, invoked, e_what, exitCode>>

\* (slip: the buffer is not switched back after the group header)
GroupLogRestore_missing ==
    /\ pc = "group_log_restore"
    /\ pc' = "test_loop"
    /\ UNCHANGED <<avars, groupArg, logEnabled, s_tests, regs, g_successes, first, numTests,
                   rdbuf, coutBad, coutBuffer, sumBuffer, idx, curGroup,
                   curName, groupsDone, testsDone, console, g_testsLog,
                   invoked, e_what, exitCode>>

GroupLogRestore ==
    /\ pc = "group_log_restore"
    /\ rdbuf' = coutBuffer
    /\ pc' = "test_loop"
    /\ UNCHANGED <<avars, groupArg, logEnabled, s_tests, regs, g_successes, first, numTests,
                   coutBad, coutBuffer, sumBuffer, idx, curGroup, curName,
                   groupsDone, testsDone, console, g_testsLog, invoked, e_what,
                   exitCode>>

\* (slip: the outer loop is left after the first group)
GroupsEnd_early ==
    /\ pc = "group_loop"
    /\ groupsDone # {} \/ (DOMAIN s_tests) \ groupsDone = {}
    /\ pc' = "print_summary"
    /\ UNCHANGED <<avars, groupArg, logEnabled, s_tests, regs, g_successes,
                   first, numTests, rdbuf, coutBad, coutBuffer, sumBuffer, idx,
                   curGroup, curName, groupsDone, testsDone, console,
                   g_testsLog, invoked, e_what, exitCode>>

GroupsEnd ==
    /\ pc = "group_loop"
    /\ (DOMAIN s_tests) \ groupsDone = {}
    /\ pc' = "print_summary"
    /\ UNCHANGED <<avars, groupArg, logEnabled, s_tests, regs, g_successes, first, numTests,
                   rdbuf, coutBad, coutBuffer, sumBuffer, idx, curGroup,
                   curName, groupsDone, testsDone, console, g_testsLog,
                   invoked, e_what, exitCode>>

\* for (const auto &[name, test] : tests), again in unspecified order.
TestNext(name) ==
    /\ pc = "test_loop"
    /\ name \in (DOMAIN s_tests[curGroup]) \ testsDone
    /\ curName' = name
    /\ console' = ConsoleAfter(rdbuf, coutBad, console, << <<"P", "test", idx + 1, name>> >>)
    /\ g_testsLog' = LogAfter(rdbuf, coutBad, g_testsLog, << <<"P", "test", idx + 1, name>> >>)
    /\ pc' = "capture"
    /\ UNCHANGED <<avars, groupArg, logEnabled, s_tests, regs, g_successes, first, numTests,
                   rdbuf, coutBad, coutBuffer, sumBuffer, idx, curGroup,
                   groupsDone, testsDone, invoked, e_what, exitCode>>

\* (slip: the inner loop is left after the group's first test)
TestsEnd_early ==
    /\ pc = "test_loop"
    /\ testsDone # {} \/ (DOMAIN s_tests[curGroup]) \ testsDone = {}
    /\ groupsDone' = groupsDone \cup {curGroup}
    /\ pc' = "group_loop"
    /\ UNCHANGED <<avars, groupArg, logEnabled, s_tests, regs, g_successes,
                   first, numTests, rdbuf, coutBad, coutBuffer, sumBuffer, idx,
                   curGroup, curName, testsDone, console, g_testsLog, invoked,
                   e_what, exitCode>>

\* (slip: a group is erased from the map once its tests have been run)
TestsEnd_erase ==
    /\ pc = "test_loop"
    /\ (DOMAIN s_tests[curGroup]) \ testsDone = {}
    /\ s_tests' = [g \in (DOMAIN s_tests) \ {curGroup} |-> s_tests[g]]
    /\ groupsDone' = groupsDone
    /\ pc' = "group_loop"
    /\ UNCHANGED <<avars, groupArg, logEnabled, regs, g_successes, first,
                   numTests, rdbuf, coutBad, coutBuffer, sumBuffer, idx,
                   curGroup, curName, testsDone, console, g_testsLog, invoked,
                   e_what, exitCode>>

TestsEnd ==
    /\ pc = "test_loop"
    /\ (DOMAIN s_tests[curGroup]) \ testsDone = {}
    /\ groupsDone' = groupsDone \cup {curGroup}
    /\ pc' = "group_loop"
    /\ UNCHANGED <<avars, groupArg, logEnabled, s_tests, regs, g_successes, first, numTests,
                   rdbuf, coutBad, coutBuffer, sumBuffer, idx, curGroup,
                   curName, testsDone, console, g_testsLog, invoked, e_what,
                   exitCode>>

\* (slip: std::cout is left pointing at the console)
CaptureTarget_console == "console"

\* The buffer std::cout is pointed at for the duration of the test.
CaptureTarget == IF logEnabled THEN "log" ELSE "null"

Capture ==
    /\ pc = "capture"
    /\ rdbuf' = CaptureTarget
    /\ console' = IF logEnabled
                  THEN ConsoleAfter(CaptureTarget, coutBad, console,
                          << print_line_separator("L"), <<"L", "testlog", curName>> >>)
                  ELSE console
    /\ g_testsLog' = IF logEnabled
                     THEN LogAfter(CaptureTarget, coutBad, g_testsLog,
                          << print_line_separator("L"), <<"L", "testlog", curName>> >>)
                     ELSE g_testsLog
    /\ pc' = "invoke"
    /\ UNCHANGED <<avars, groupArg, logEnabled, s_tests, regs, g_successes, first, numTests,
                   coutBad, coutBuffer, sumBuffer, idx, curGroup, curName,
                   groupsDone, testsDone, invoked, e_what, exitCode>>

\* (slip: no catch clause around test())
AfterTest_no_catch(b) ==
    IF Returns(b) THEN (IF logEnabled THEN "pass_log" ELSE "pass_restore")
    ELSE IF b = "hang" THEN "hung"
    ELSE "terminated"

\* (slip: catch (...) instead of catch (const std::exception &))
AfterTest_catch_all(b) ==
    IF Returns(b) THEN (IF logEnabled THEN "pass_log" ELSE "pass_restore")
    ELSE IF b = "hang" THEN "hung"
    ELSE (IF logEnabled THEN "catch_log" ELSE "catch_restore")

\* (slip: a watchdog gives up on a test that does not return and fails it)
AfterTest_watchdog(b) ==
    IF Returns(b) THEN (IF logEnabled THEN "pass_log" ELSE "pass_restore")
    ELSE IF Throws(b) \/ b = "hang" THEN (IF logEnabled THEN "catch_log" ELSE "catch_restore")
    ELSE "terminated"

\* Where control goes after test() for each thing a test function can do.
AfterTest(b) ==
    IF Returns(b) THEN (IF logEnabled THEN "pass_log" ELSE "pass_restore")
    ELSE IF Throws(b) THEN (IF logEnabled THEN "catch_log" ELSE "catch_restore")
    ELSE IF b = "unknown" THEN "terminated"
    ELSE "hung"

\* test(): the function prints (or not) and then returns, throws or hangs.
\* Printing while std::cout has a null stream buffer and no badbit (set_rdbuf
\* does not touch the state) dereferences the null buffer: the process dies
\* there, or the library's catch-all turns the fault into badbit.
\* (variant: a scope guard switches the buffer back when an exception of
\* any type leaves the loop body)
Invoke_guarded(b, fault) ==
    /\ pc = "invoke"
    /\ LET func == s_tests[curGroup][curName]
           nullWrite == Prints(b) /\ rdbuf = "null" /\ ~coutBad
           out == << <<"T", "output", func>> >>
       IN  /\ fault \in (IF nullWrite THEN {"crash", "badbit"} ELSE {"none"})
           /\ invoked' = Append(invoked, [group |-> curGroup, name |-> curName,
                                          func |-> func, does |-> b])
           /\ console' = IF Prints(b)
                         THEN ConsoleAfter(rdbuf, coutBad, console, out)
                         ELSE console
           /\ g_testsLog' = IF Prints(b)
                            THEN LogAfter(rdbuf, coutBad, g_testsLog, out)
                            ELSE g_testsLog
           /\ coutBad' = (coutBad \/ fault = "badbit")
           /\ e_what' = IF fault # "crash" /\ Throws(b) THEN What(b, func) ELSE <<"none">>
           /\ rdbuf' = IF b = "unknown" THEN coutBuffer ELSE rdbuf
           /\ pc' = IF fault = "crash" THEN "crashed" ELSE AfterTest(b)
    /\ UNCHANGED <<avars, groupArg, logEnabled, s_tests, regs, g_successes,
                   first, numTests, coutBuffer, sumBuffer, idx, curGroup,
                   curName, groupsDone, testsDone, exitCode>>

Invoke(b, fault) ==
    /\ pc = "invoke"
    /\ LET func == s_tests[curGroup][curName]
           nullWrite == Prints(b) /\ rdbuf = "null" /\ ~coutBad
           out == << <<"T", "output", func>> >>
       IN  /\ fault \in (IF nullWrite THEN {"crash", "badbit"} ELSE {"none"})
           /\ invoked' = Append(invoked, [group |-> curGroup, name |-> curName,
                                          func |-> func, does |-> b])
           /\ console' = IF Prints(b)
                         THEN ConsoleAfter(rdbuf, coutBad, console, out)
                         ELSE console
           /\ g_testsLog' = IF Prints(b)
                            THEN LogAfter(rdbuf, coutBad, g_testsLog, out)
                            ELSE g_testsLog
           /\ coutBad' = (coutBad \/ fault = "badbit")
           /\ e_what' = IF fault # "crash" /\ Throws(b) THEN What(b, func) ELSE <<"none">>
           /\ pc' = IF fault = "crash" THEN "crashed" ELSE AfterTest(b)
    /\ UNCHANGED <<avars, groupArg, logEnabled, s_tests, regs, g_successes, first, numTests,
                   rdbuf, coutBuffer, sumBuffer, idx, curGroup, curName,
                   groupsDone, testsDone, exitCode>>

\* try branch after test() returned (lines 366-374)
\* (slip: the separator that closes the record is left out)
PassLog_no_separator ==
    /\ pc = "pass_log"
    /\ console' = ConsoleAfter(rdbuf, coutBad, console, << <<"L", "passed">> >>)
    /\ g_testsLog' = LogAfter(rdbuf, coutBad, g_testsLog, << <<"L", "passed">> >>)
    /\ pc' = "pass_restore"
    /\ UNCHANGED <<avars, groupArg, logEnabled, s_tests, regs, g_successes,
                   first, numTests, rdbuf, coutBad, coutBuffer, sumBuffer, idx,
                   curGroup, curName, groupsDone, testsDone, invoked, e_what,
                   exitCode>>

PassLog ==
    /\ pc = "pass_log"
    /\ console' = ConsoleAfter(rdbuf, coutBad, console,
                     << <<"L", "passed">>, print_line_separator("L") >>)
    /\ g_testsLog' = LogAfter(rdbuf, coutBad, g_testsLog,
                     << <<"L", "passed">>, print_line_separator("L") >>)
    /\ pc' = "pass_restore"
    /\ UNCHANGED <<avars, groupArg, logEnabled, s_tests, regs, g_successes, first, numTests,
                   rdbuf, coutBad, coutBuffer, sumBuffer, idx, curGroup,
                   curName, groupsDone, testsDone, invoked, e_what, exitCode>>

\* (slip: the try branch does not switch the buffer back)
PassRestore_missing ==
    /\ pc = "pass_restore"
    /\ pc' = "pass_print"
    /\ UNCHANGED <<avars, groupArg, logEnabled, s_tests, regs, g_successes,
                   first, numTests, rdbuf, coutBad, coutBuffer, sumBuffer, idx,
                   curGroup, curName, groupsDone, testsDone, console,
                   g_testsLog, invoked, e_what, exitCode>>

\* (slip: g_successes++ right after test(), before the verdict is printed)
PassRestore_counting ==
    /\ pc = "pass_restore"
    /\ rdbuf' = coutBuffer
    /\ g_successes' = g_successes + 1
    /\ pc' = "pass_print"
    /\ UNCHANGED <<avars, groupArg, logEnabled, s_tests, regs, first, numTests,
                   coutBad, coutBuffer, sumBuffer, idx, curGroup, curName,
                   groupsDone, testsDone, console, g_testsLog, invoked, e_what,
                   exitCode>>

PassRestore ==
    /\ pc = "pass_restore"
    /\ rdbuf' = coutBuffer
    /\ pc' = "pass_print"
    /\ UNCHANGED <<avars, groupArg, logEnabled, s_tests, regs, g_successes, first, numTests,
                   coutBad, coutBuffer, sumBuffer, idx, curGroup, curName,
                   groupsDone, testsDone, console, g_testsLog, invoked, e_what,
                   exitCode>>

PassPrint ==
    /\ pc = "pass_print"
    /\ console' = ConsoleAfter(rdbuf, coutBad, console, << <<"P", "passed">> >>)
    /\ g_testsLog' = LogAfter(rdbuf, coutBad, g_testsLog, << <<"P", "passed">> >>)
    /\ pc' = "pass_count"
    /\ UNCHANGED <<avars, groupArg, logEnabled, s_tests, regs, g_successes, first, numTests,
                   rdbuf, coutBad, coutBuffer, sumBuffer, idx, curGroup,
                   curName, groupsDone, testsDone, invoked, e_what, exitCode>>

\* (slip: counted once for the log line and once for the console line)
PassCount_twice ==
    /\ pc = "pass_count"
    /\ g_successes' = g_successes + 2
    /\ pc' = "next_test"
    /\ UNCHANGED <<avars, groupArg, logEnabled, s_tests, regs, first, numTests,
                   rdbuf, coutBad, coutBuffer, sumBuffer, idx, curGroup,
                   curName, groupsDone, testsDone, console, g_testsLog,
                   invoked, e_what, exitCode>>

PassCount ==
    /\ pc = "pass_count"
    /\ g_successes' = g_successes + 1
    /\ pc' = "next_test"
    /\ UNCHANGED <<avars, groupArg, logEnabled, s_tests, regs, first, numTests, rdbuf, coutBad,
                   coutBuffer, sumBuffer, idx, curGroup, curName, groupsDone,
                   testsDone, console, g_testsLog, invoked, e_what, exitCode>>

\* catch (const std::exception &e) (lines 378-388)
CatchLog ==
    /\ pc = "catch_log"
    /\ console' = ConsoleAfter(rdbuf, coutBad, console,
                     << <<"L", "failed", e_what>>, print_line_separator("L") >>)
    /\ g_testsLog' = LogAfter(rdbuf, coutBad, g_testsLog,
                     << <<"L", "failed", e_what>>, print_line_separator("L") >>)
    /\ pc' = "catch_restore"
    /\ UNCHANGED <<avars, groupArg, logEnabled, s_tests, regs, g_successes, first, numTests,
                   rdbuf, coutBad, coutBuffer, sumBuffer, idx, curGroup,
                   curName, groupsDone, testsDone, invoked, e_what, exitCode>>

\* (slip: the catch branch does not switch the buffer back)
CatchRestore_missing ==
    /\ pc = "catch_restore"
    /\ pc' = "catch_print"
    /\ UNCHANGED <<avars, groupArg, logEnabled, s_tests, regs, g_successes, first, numTests,
                   rdbuf, coutBad, coutBuffer, sumBuffer, idx, curGroup,
                   curName, groupsDone, testsDone, console, g_testsLog,
                   invoked, e_what, exitCode>>

CatchRestore ==
    /\ pc = "catch_restore"
    /\ rdbuf' = coutBuffer
    /\ pc' = "catch_print"
    /\ UNCHANGED <<avars, groupArg, logEnabled, s_tests, regs, g_successes, first, numTests,
                   coutBad, coutBuffer, sumBuffer, idx, curGroup, curName,
                   groupsDone, testsDone, console, g_testsLog, invoked, e_what,
                   exitCode>>

\* (slip: g_successes++ after the try/catch, so failures count too)
CatchPrint_counting ==
    /\ pc = "catch_print"
    /\ console' = ConsoleAfter(rdbuf, coutBad, console, << <<"P", "failed", e_what>> >>)
    /\ g_testsLog' = LogAfter(rdbuf, coutBad, g_testsLog, << <<"P", "failed", e_what>> >>)
    /\ e_what' = <<"none">>
    /\ g_successes' = g_successes + 1
    /\ pc' = "next_test"
    /\ UNCHANGED <<avars, groupArg, logEnabled, s_tests, regs, first, numTests,
                   rdbuf, coutBad, coutBuffer, sumBuffer, idx, curGroup,
                   curName, groupsDone, testsDone, invoked, exitCode>>

\* (slip: a failure leaves the inner loop, the group's other tests are skipped)
CatchPrint_break ==
    /\ pc = "catch_print"
    /\ console' = ConsoleAfter(rdbuf, coutBad, console, << <<"P", "failed", e_what>> >>)
    /\ g_testsLog' = LogAfter(rdbuf, coutBad, g_testsLog, << <<"P", "failed", e_what>> >>)
    /\ e_what' = <<"none">>
    /\ testsDone' = DOMAIN s_tests[curGroup]
    /\ pc' = "next_test"
    /\ UNCHANGED <<avars, groupArg, logEnabled, s_tests, regs, g_successes,
                   first, numTests, rdbuf, coutBad, coutBuffer, sumBuffer, idx,
                   curGroup, curName, groupsDone, invoked, exitCode>>

CatchPrint ==
    /\ pc = "catch_print"
    /\ console' = ConsoleAfter(rdbuf, coutBad, console, << <<"P", "failed", e_what>> >>)
    /\ g_testsLog' = LogAfter(rdbuf, coutBad, g_testsLog, << <<"P", "failed", e_what>> >>)
    /\ e_what' = <<"none">>
    /\ pc' = "next_test"
    /\ UNCHANGED <<avars, groupArg, logEnabled, s_tests, regs, g_successes, first, numTests,
                   rdbuf, coutBad, coutBuffer, sumBuffer, idx, curGroup,
                   curName, groupsDone, testsDone, invoked, exitCode>>

\* idx++ and the inner loop's increment
\* (slip: idx++ at the end of the try block, a failed test does not advance it)
NextTest_idx_on_success ==
    /\ pc = "next_test"
    /\ idx' = IF Returns(invoked[Len(invoked)].does) THEN idx + 1 ELSE idx
    /\ testsDone' = testsDone \cup {curName}
    /\ pc' = "test_loop"
    /\ UNCHANGED <<avars, groupArg, logEnabled, s_tests, regs, g_successes,
                   first, numTests, rdbuf, coutBad, coutBuffer, sumBuffer,
                   curGroup, curName, groupsDone, console, g_testsLog, invoked,
                   e_what, exitCode>>

NextTest ==
    /\ pc = "next_test"
    /\ idx' = idx + 1
    /\ testsDone' = testsDone \cup {curName}
    /\ pc' = "test_loop"
    /\ UNCHANGED <<avars, groupArg, logEnabled, s_tests, regs, g_successes, first, numTests,
                   rdbuf, coutBad, coutBuffer, sumBuffer, curGroup, curName,
                   groupsDone, console, g_testsLog, invoked, e_what, exitCode>>

\* ------------------------------------------------------------- print_summary
SummaryLines(dest) ==
    << print_line_separator(dest),
       <<dest, "summary_title">>,
       <<dest, "summary", g_successes, get_number_of_tests>>,
       print_line_separator(dest) >>

\* (slip: the counter is cleared once it has been reported)
SummaryConsole_clearing ==
    /\ pc = "print_summary"
    /\ console' = ConsoleAfter(rdbuf, coutBad, console, SummaryLines("P"))
    /\ g_testsLog' = LogAfter(rdbuf, coutBad, g_testsLog, SummaryLines("P"))
    /\ numTests' = get_number_of_tests
    /\ first' = FALSE
    /\ g_successes' = 0
    /\ pc' = IF logEnabled THEN "summary_redirect" ELSE "return"
    /\ UNCHANGED <<avars, groupArg, logEnabled, s_tests, regs, rdbuf, coutBad,
                   coutBuffer, sumBuffer, idx, curGroup, curName, groupsDone,
                   testsDone, invoked, e_what, exitCode>>

SummaryConsole ==
    /\ pc = "print_summary"
    /\ console' = ConsoleAfter(rdbuf, coutBad, console, SummaryLines("P"))
    /\ g_testsLog' = LogAfter(rdbuf, coutBad, g_testsLog, SummaryLines("P"))
    /\ numTests' = get_number_of_tests
    /\ first' = FALSE
    /\ pc' = IF logEnabled THEN "summary_redirect" ELSE "return"
    /\ UNCHANGED <<avars, groupArg, logEnabled, s_tests, regs, g_successes, rdbuf, coutBad,
                   coutBuffer, sumBuffer, idx, curGroup, curName, groupsDone,
                   testsDone, invoked, e_what, exitCode>>

SummaryRedirect ==
    /\ pc = "summary_redirect"
    /\ sumBuffer' = rdbuf
    /\ rdbuf' = "log"
    /\ pc' = "summary_log"
    /\ UNCHANGED <<avars, groupArg, logEnabled, s_tests, regs, g_successes, first, numTests,
                   coutBad, coutBuffer, idx, curGroup, curName, groupsDone,
                   testsDone, console, g_testsLog, invoked, e_what, exitCode>>

SummaryLog ==
    /\ pc = "summary_log"
    /\ console' = ConsoleAfter(rdbuf, coutBad, console, SummaryLines("L"))
    /\ g_testsLog' = LogAfter(rdbuf, coutBad, g_testsLog, SummaryLines("L"))
    /\ numTests' = get_number_of_tests
    /\ first' = FALSE
    /\ pc' = "summary_restore"
    /\ UNCHANGED <<avars, groupArg, logEnabled, s_tests, regs, g_successes, rdbuf, coutBad,
                   coutBuffer, sumBuffer, idx, curGroup, curName, groupsDone,
                   testsDone, invoked, e_what, exitCode>>

SummaryRestore ==
    /\ pc = "summary_restore"
    /\ rdbuf' = sumBuffer
    /\ pc' = "return"
    /\ UNCHANGED <<avars, groupArg, logEnabled, s_tests, regs, g_successes, first, numTests,
                   coutBad, coutBuffer, sumBuffer, idx, curGroup, curName,
                   groupsDone, testsDone, console, g_testsLog, invoked, e_what,
                   exitCode>>

\* --------------------------------------------------------- main's last return
\* (slip of v1.2.0: passed tests compared to the number of groups)
ReturnValue_groups == IF g_successes = size(s_tests) THEN pass ELSE fail

ReturnValue == IF g_successes = get_number_of_tests THEN pass ELSE fail

Return ==
    /\ pc = "return"
    /\ exitCode' = <<ReturnValue>>
    /\ numTests' = get_number_of_tests
    /\ first' = FALSE
    /\ pc' = "exited"
    /\ UNCHANGED <<avars, groupArg, logEnabled, s_tests, regs, g_successes, rdbuf, coutBad,
                   coutBuffer, sumBuffer, idx, curGroup, curName, groupsDone,
                   testsDone, console, g_testsLog, invoked, e_what>>

\* ---------------------------------------------------------------------- Next
Next ==
    \/ \E name \in Names, func \in Funcs, arg \in Groups \cup {NoGroupArg} :
           Register(name, func, arg)
    \/ StartMain
    \/ print_info
    \/ CheckEmpty
    \/ run_tests_begin
    \/ \E group \in Groups : GroupNext(group)
    \/ GroupLogHeader
    \/ GroupLogRestore
    \/ GroupsEnd
    \/ \E name \in Names : TestNext(name)
    \/ TestsEnd
    \/ Capture
    \/ \E b \in Behaviours, fault \in {"none", "crash", "badbit"} : Invoke(b, fault)
    \/ PassLog
    \/ PassRestore
    \/ PassPrint
    \/ PassCount
    \/ CatchLog
    \/ CatchRestore
    \/ CatchPrint
    \/ NextTest
    \/ SummaryConsole
    \/ SummaryRedirect
    \/ SummaryLog
    \/ SummaryRestore
    \/ Return

Spec == Init /\ [][Next]_vars

\* The program runs on one thread that is never suspended for good: whatever
\* statement comes next is eventually executed (static initialisers included).
SpecLive == Init /\ [][Next]_vars /\ WF_vars(Next)

\* ------------------------------------------- one test function, step by step
\* A test function is a sequence of bTEST_ASSERTs; the i-th stands on line
\* a_line + i - 1 of a_file and its expression has the value a_body[i].
PathChars == {bFILE_PATH_SEPARATOR, "s", "."}

RECURSIVE StringsUpTo(_, _)
StringsUpTo(chars, n) ==
    IF n = 0 THEN {<<>>}
    ELSE LET shorter == StringsUpTo(chars, n - 1)
         IN  shorter \cup {Append(str, c) : str \in shorter, c \in chars}

FirstLines == {9, 99}

InitAssert ==
    /\ pc = "test_function"
    /\ logEnabled = TRUE
    /\ s_tests = EmptyMap
    /\ regs = <<>>
    /\ g_successes = 0
    /\ first = TRUE
    /\ numTests = 0
    /\ rdbuf = "console"
    /\ coutBad = FALSE
    /\ coutBuffer = "none"
    /\ sumBuffer = "none"
    /\ idx = 0
    /\ curGroup = "none"
    /\ curName = "none"
    /\ groupsDone = {}
    /\ testsDone = {}
    /\ console = <<>>
    /\ g_testsLog = <<>>
    /\ invoked = <<>>
    /\ e_what = <<"none">>
    /\ exitCode = <<>>
    /\ groupArg = "none"
    /\ a_file \in StringsUpTo(PathChars, MaxPathLen) \ {<<>>}
    /\ a_line \in FirstLines
    /\ a_body \in UNION {[1..n -> BOOLEAN] : n \in 0..MaxAsserts}
    /\ a_pos = 1
    /\ a_result = "running"
    /\ a_what = <<>>

mainvars == <<pc, logEnabled, s_tests, regs, g_successes, first, numTests,
              rdbuf, coutBad, coutBuffer, sumBuffer, idx, curGroup, curName,
              groupsDone, testsDone, console, g_testsLog, invoked, e_what,
              exitCode, groupArg>>

\* One bTEST_ASSERT(expr): throws, or does nothing and control goes on.
bTEST_ASSERT ==
    /\ a_result = "running"
    /\ a_pos <= Len(a_body)
    /\ IF AssertThrows(a_body[a_pos])
       THEN /\ a_result' = "thrown"
            /\ a_what' = ErrorString(a_file, a_line + a_pos - 1)
            /\ a_pos' = a_pos
       ELSE /\ a_result' = a_result
            /\ a_what' = a_what
            /\ a_pos' = a_pos + 1
    /\ UNCHANGED <<mainvars, a_file, a_line, a_body>>

\* The end of the function body is reached.
TestFuncReturn ==
    /\ a_result = "running"
    /\ a_pos > Len(a_body)
    /\ a_result' = "returned"
    /\ UNCHANGED <<mainvars, a_file, a_line, a_body, a_pos, a_what>>

NextAssert ==
    \/ bTEST_ASSERT
    \/ TestFuncReturn

SpecAssert == InitAssert /\ [][NextAssert]_vars

\* -------------------------------------------- print_summary(), called again
\* print_summary() as a function of the state run_tests() leaves behind: the
\* registries that up to MaxRegs constructors can build, any number of passed
\* tests up to the total, the total already cached by print_info().
RECURSIVE RegistriesAfter(_)
RegistriesAfter(n) ==
    IF n = 0 THEN {EmptyMap}
    ELSE {RegistryAfter(tests, name, n, GroupParam(arg)) :
              tests \in RegistriesAfter(n - 1), name \in Names,
              arg \in Groups \cup {NoGroupArg}}

InitSummary ==
    /\ pc = "print_summary"
    /\ logEnabled \in BOOLEAN
    /\ s_tests \in UNION {RegistriesAfter(n) : n \in 1..MaxRegs}
    /\ regs = <<>>
    /\ g_successes \in 0..SumSizes(s_tests, DOMAIN s_tests)
    /\ first = FALSE
    /\ numTests = SumSizes(s_tests, DOMAIN s_tests)
    /\ rdbuf = "console"
    /\ coutBad = FALSE
    /\ coutBuffer = "console"
    /\ sumBuffer = "none"
    /\ idx = numTests
    /\ curGroup = "none"
    /\ curName = "none"
    /\ groupsDone = DOMAIN s_tests
    /\ testsDone = {}
    /\ console = <<>>
    /\ g_testsLog = <<>>
    /\ invoked = <<>>
    /\ e_what = <<"none">>
    /\ exitCode = <<>>
    /\ groupArg = "none"
    /\ a_file = <<>>
    /\ a_line = 0
    /\ a_body = <<>>
    /\ a_pos = 0
    /\ a_result = "idle"
    /\ a_what = <<>>

\* print_summary() has returned and is called once more.
SummaryAgain ==
    /\ pc = "return"
    /\ Cardinality({i \in DOMAIN console : console[i][2] = "summary"}) < MaxSummaries
    /\ pc' = "print_summary"
    /\ UNCHANGED <<avars, groupArg, logEnabled, s_tests, regs, g_successes,
                   first, numTests, rdbuf, coutBad, coutBuffer, sumBuffer, idx,
                   curGroup, curName, groupsDone, testsDone, console,
                   g_testsLog, invoked, e_what, exitCode>>

NextSummary ==
    \/ SummaryConsole
    \/ SummaryRedirect
    \/ SummaryLog
    \/ SummaryRestore
    \/ SummaryAgain

SpecSummary == InitSummary /\ [][NextSummary]_vars

\* ================================================================ properties
\* Observations over the history variables regs and invoked.
RegisteredKeys == {<<regs[i].group, regs[i].name>> : i \in DOMAIN regs}

RegsOf(g, n) == {i \in DOMAIN regs : regs[i].group = g /\ regs[i].name = n}

LastRegOf(g, n) == CHOOSE i \in RegsOf(g, n) : \A j \in RegsOf(g, n) : j <= i

CallsOf(g, n) == {i \in DOMAIN invoked : invoked[i].group = g /\ invoked[i].name = n}

TotalRegistered == SumSizes(s_tests, DOMAIN s_tests)

\* C1: once main has returned, the exit status is pass if and only if the
\* number of passed tests equals the total number of tests (the sum of the
\* group sizes, not the number of groups); with no tests at all it is pass.
C1_ExitPassIffPassedEqualsTotal ==
    exitCode # <<>> =>
        /\ (exitCode = <<pass>>) <=> (g_successes = TotalRegistered)
        /\ exitCode \in {<<pass>>, <<fail>>}
        /\ TotalRegistered = 0 => exitCode = <<pass>>

\* C1 witness: two tests in a single group, both passed, main returned pass.
C1_Witness ==
    /\ pc = "exited"
    /\ exitCode = <<pass>>
    /\ size(s_tests) = 1
    /\ g_successes = 2

\* C2: main returns 0 when every test function that ran returned normally
\* (or none is registered) and -1 when at least one threw the failure signal.
C2_ExitCodeEndToEnd ==
    pc = "exited" =>
        /\ (\A i \in DOMAIN invoked : Returns(invoked[i].does)) => exitCode = <<0>>
        /\ (\E i \in DOMAIN invoked : Throws(invoked[i].does)) => exitCode = <<0 - 1>>

\* C2 witness: a run with one passing and one failing test that returned -1.
C2_Witness ==
    /\ pc = "exited"
    /\ exitCode = <<0 - 1>>
    /\ \E i \in DOMAIN invoked : invoked[i].does = "assert"
    /\ \E i \in DOMAIN invoked : Returns(invoked[i].does)

\* C3: in every reachable state the number of passed tests is at most the
\* total number of tests.
C3_PassedAtMostTotal ==
    /\ g_successes <= get_number_of_tests
    /\ g_successes <= TotalRegistered

\* C3 witness: the bound is attained with at least two tests.
C3_Witness ==
    /\ g_successes = get_number_of_tests
    /\ g_successes >= 2

\* C4: when a (group, name) pair is registered more than once the registry
\* holds one entry for it with the function of the last registration, the
\* group's entry count is the number of distinct names registered in it, and
\* the run only ever calls that last function for the pair.
C4_LastRegistrationWins ==
    \A k \in RegisteredKeys :
        Cardinality(RegsOf(k[1], k[2])) > 1 =>
            /\ contains(s_tests, k[1]) /\ contains(s_tests[k[1]], k[2])
            /\ s_tests[k[1]][k[2]] = regs[LastRegOf(k[1], k[2])].func
            /\ size(s_tests[k[1]]) =
                   Cardinality({q \in RegisteredKeys : q[1] = k[1]})
            /\ \A i \in CallsOf(k[1], k[2]) :
                   invoked[i].func = regs[LastRegOf(k[1], k[2])].func
            /\ Cardinality(CallsOf(k[1], k[2])) <= 1

\* C4 witness: a pair registered twice whose test has been called, run over.
C4_Witness ==
    /\ pc = "exited"
    /\ \E k \in RegisteredKeys :
           /\ Cardinality(RegsOf(k[1], k[2])) > 1
           /\ CallsOf(k[1], k[2]) # {}

\* C5: when one name is registered under two distinct groups both entries are
\* in the registry, the total counts both, and by the end of the run each has
\* been called exactly once.
C5_SameNameTwoGroups ==
    \A k1 \in RegisteredKeys, k2 \in RegisteredKeys :
        (k1[2] = k2[2] /\ k1[1] # k2[1]) =>
            /\ k1 \in Entries(s_tests) /\ k2 \in Entries(s_tests)
            /\ s_tests[k1[1]][k1[2]] = regs[LastRegOf(k1[1], k1[2])].func
            /\ TotalRegistered = Cardinality(RegisteredKeys)
            /\ ~first => numTests = Cardinality(RegisteredKeys)
            /\ pc = "exited" => Cardinality(CallsOf(k1[1], k1[2])) = 1

\* C5 witness: the same name in two groups, one call passed, the other failed.
C5_Witness ==
    /\ pc = "exited"
    /\ \E i \in DOMAIN invoked, j \in DOMAIN invoked :
           /\ invoked[i].name = invoked[j].name
           /\ invoked[i].group # invoked[j].group
           /\ Returns(invoked[i].does)
           /\ Throws(invoked[j].does)
    /\ g_successes = 1

\* C6: a failure signal raised by a test never ends the run: the run stops
\* early only on something that is not a std::exception (or a test that does
\* not come back), every entry is called at most once, and when main returns
\* every registered entry has been called exactly once.
C6_FailureNeverHaltsRun ==
    /\ \A e \in Entries(s_tests) : Cardinality(CallsOf(e[1], e[2])) <= 1
    /\ \A i \in DOMAIN invoked : <<invoked[i].group, invoked[i].name>> \in Entries(s_tests)
    /\ \A i \in DOMAIN invoked :
           i < Len(invoked) => (Returns(invoked[i].does) \/ Throws(invoked[i].does))
    /\ pc = "terminated" => invoked[Len(invoked)].does = "unknown"
    /\ pc = "hung" => invoked[Len(invoked)].does = "hang"
    /\ pc = "crashed" => (Prints(invoked[Len(invoked)].does) /\ ~logEnabled)
    /\ pc = "exited" =>
           /\ \A e \in Entries(s_tests) : Cardinality(CallsOf(e[1], e[2])) = 1
           /\ Len(invoked) = Cardinality(Entries(s_tests))

\* C6 witness: the first test called failed, later ones ran, main returned.
C6_Witness ==
    /\ pc = "exited"
    /\ Len(invoked) >= 2
    /\ Throws(invoked[1].does)

\* C7: when a test invocation is over, on the success path as on the failure
\* path, std::cout points again at the buffer it had before the capture.
C7_RedirectionRestored ==
    pc \in {"pass_print", "pass_count", "catch_print", "next_test"} =>
        /\ rdbuf = coutBuffer
        /\ rdbuf = "console"

\* C7 witness: the end of an invocation reached through the catch branch.
C7_Witness ==
    /\ pc = "next_test"
    /\ invoked # <<>>
    /\ Throws(invoked[Len(invoked)].does)
    /\ rdbuf = "console"

\* C8: a test function is only called while std::cout points at the sink (the
\* log file, or the null buffer when logging is disabled), and nothing a test
\* prints ever reaches the console.
C8_TestsRunCaptured ==
    /\ pc = "invoke" => rdbuf = (IF logEnabled THEN "log" ELSE "null")
    /\ pc = "invoke" => rdbuf # "console"
    /\ \A i \in DOMAIN console : console[i][1] # "T"

\* C8 witness: a test printed and its output is in the log file.
C8_Witness ==
    /\ \E i \in DOMAIN g_testsLog : g_testsLog[i][1] = "T"
    /\ \E i \in DOMAIN invoked : Prints(invoked[i].does)

\* C9: every line the runner means for the console (announcement, group
\* header, '[i] : name', verdict, summary) is written while std::cout points at
\* the console buffer, with logging enabled or not; none ends up in the log.
C9_ProgressLinesToPrimary ==
    /\ pc \in {"print_info", "run_tests", "group_loop", "test_loop",
               "pass_print", "catch_print", "print_summary"} => rdbuf = "console"
    /\ \A i \in DOMAIN g_testsLog : g_testsLog[i][1] # "P"
    /\ \A i \in DOMAIN console : console[i][1] = "P"

\* C9 witness: with logging enabled, a verdict and the summary on the console.
C9_Witness ==
    /\ logEnabled
    /\ g_testsLog # <<>>
    /\ \E i \in DOMAIN console : console[i] = <<"P", "passed">>
    /\ \E i \in DOMAIN console : console[i][2] = "summary"

\* C10: with no test registered the runner never redirects std::cout, calls
\* no test, and main returns pass.
C10_ZeroTests ==
    (pc # "static_init" /\ s_tests = EmptyMap) =>
        /\ rdbuf = "console"
        /\ coutBuffer = "none" /\ sumBuffer = "none"
        /\ invoked = <<>>
        /\ g_testsLog = <<>>
        /\ pc \in {"print_info", "check_empty", "exited"}
        /\ pc = "exited" => exitCode = <<pass>>

\* C10 witness: main returned with an empty registry.
C10_Witness ==
    /\ pc = "exited"
    /\ regs = <<>>
    /\ exitCode = <<pass>>

\* Lines of a given kind in a sink.
LinesOf(sink, kind) == {i \in DOMAIN sink : sink[i][2] = kind}

\* C11 as stated: with no test registered the post-run summary "Passed 0 out
\* of 0 tests." is on the console by the time the program exits.
C11_Original ==
    (pc = "exited" /\ s_tests = EmptyMap) =>
        \E i \in DOMAIN console : console[i] = <<"P", "summary", 0, 0>>

\* C11 as amended: with no test registered the program exits after the pre-run
\* information, which reports 0 tests in 0 groups; no post-run summary is
\* written, to the console or to the log.
C11_ZeroTestsPreRunOnly ==
    (pc = "exited" /\ s_tests = EmptyMap) =>
        /\ console = << print_line_separator("P"), <<"P", "info">>,
                        <<"P", "found", 0, 0>>, print_line_separator("P") >>
        /\ LinesOf(console, "summary") = {}
        /\ LinesOf(g_testsLog, "summary") = {}
        /\ g_successes = 0 /\ numTests = 0

\* C11 witness: the program has exited with an empty registry and the four
\* lines of print_info on the console.
C11_Witness ==
    /\ pc = "exited"
    /\ s_tests = EmptyMap
    /\ Len(console) = 4
    /\ ~first

\* C12: when a test function throws something that is not a std::exception the
\* run ends at that test: it is the last test called, no summary is written
\* and main returns nothing.
C12_UnknownErrorAborts ==
    \A i \in DOMAIN invoked :
        invoked[i].does = "unknown" =>
            /\ i = Len(invoked)
            /\ pc = "terminated"
            /\ exitCode = <<>>
            /\ LinesOf(console, "summary") = {}
            /\ LinesOf(g_testsLog, "summary") = {}
            /\ LinesOf(console, "summary_title") = {}

\* C12 witness: the first of two registered tests threw an unknown error; the
\* second was never called.
C12_Witness ==
    /\ pc = "terminated"
    /\ Len(invoked) = 1
    /\ Cardinality(Entries(s_tests)) = 2
    /\ invoked[1].does = "unknown"

\* C13: a UnitTest constructed without a group argument changes the registry
\* exactly as one constructed with the group "ungrouped" would, so it shares
\* that group with tests registered under "ungrouped" explicitly.
C13_DefaultGroupIsUngrouped ==
    [][ (pc = "static_init" /\ regs' # regs /\ groupArg' = NoGroupArg) =>
            /\ s_tests' = RegistryAfter(s_tests, regs'[Len(regs')].name,
                                        regs'[Len(regs')].func, "ungrouped")
            /\ regs'[Len(regs')].group = "ungrouped"
            /\ DOMAIN s_tests' = (DOMAIN s_tests) \cup {"ungrouped"} ]_vars

\* C13 witness: a test registered without a group has replaced the test of
\* the same name already in "ungrouped".
C13_Witness ==
    /\ pc = "static_init"
    /\ groupArg = NoGroupArg
    /\ Len(regs) = 2
    /\ regs[1].name = regs[2].name
    /\ regs[1].group = "ungrouped"
    /\ size(s_tests["ungrouped"]) = 1
    /\ s_tests["ungrouped"][regs[2].name] = 2

\* Line of the i-th bTEST_ASSERT of the test function under study.
LineOfAssert(i) == a_line + i - 1

IsSuffix(t, str) ==
    Len(t) <= Len(str) /\ t = SubSeq(str, Len(str) - Len(t) + 1, Len(str))

\* C14: bTEST_ASSERT throws exactly when its expression is false and otherwise
\* does nothing; a test function returns iff none of its assertions is false,
\* and the first false one ends it and supplies the location.
C14_AssertionSemantics ==
    /\ a_result = "running" =>
           /\ \A j \in 1..(a_pos - 1) : a_body[j]
           /\ a_what = <<>>
    /\ a_result = "returned" =>
           /\ \A j \in DOMAIN a_body : a_body[j]
           /\ a_pos = Len(a_body) + 1
           /\ a_what = <<>>
    /\ a_result = "thrown" =>
           /\ a_pos \in DOMAIN a_body
           /\ ~a_body[a_pos]
           /\ \A j \in 1..(a_pos - 1) : a_body[j]
           /\ IsSuffix(<<":">> \o to_string(LineOfAssert(a_pos)), a_what)
           /\ IsSuffix(a_what, a_file \o <<":">> \o to_string(LineOfAssert(a_pos)))

\* C14 witness: the first of two false assertions threw; the second never ran.
C14_Witness ==
    /\ a_result = "thrown"
    /\ a_body = <<FALSE, FALSE>>
    /\ a_pos = 1
    /\ a_line = 99

\* The part of a string after its last path separator (all of it if none).
AfterLastSeparator(str) ==
    LET seps == {i \in 1..Len(str) : str[i] = bFILE_PATH_SEPARATOR}
    IN  IF seps = {} THEN str
        ELSE SubSeq(str, (CHOOSE i \in seps : \A j \in seps : j <= i) + 1, Len(str))

\* C15 as stated: the descriptor a failed assertion carries is the part of
\* "<file>:<line>" after the last path separator, so it holds no separator;
\* without a separator in the path it is the whole string.
C15_Original ==
    a_result = "thrown" =>
        /\ a_what = AfterLastSeparator(a_file \o <<":">> \o to_string(LineOfAssert(a_pos)))
        /\ \A i \in DOMAIN a_what : a_what[i] # bFILE_PATH_SEPARATOR

\* Observations used by the claims about the verdict lines.
Verdicts(sink) == LinesOf(sink, "passed") \cup LinesOf(sink, "failed")

NumReturned == Cardinality({i \in DOMAIN invoked : Returns(invoked[i].does)})

LastCall == invoked[Len(invoked)]

\* C16 as stated: with logging disabled nothing is ever written to a log,
\* nothing a test prints shows on the console, and the verdict line of every
\* test still appears on the console.
C16_Original ==
    ~logEnabled =>
        /\ g_testsLog = <<>>
        /\ \A i \in DOMAIN console : console[i][1] # "T"
        /\ pc = "next_test" => Cardinality(Verdicts(console)) = Len(invoked)

\* C17 as stated: the post-run summary is on the console and, with logging
\* enabled, in the log, with the same passed and total on both, and std::cout
\* points where it pointed before the summary.
C17_Original ==
    pc = "return" =>
        /\ \E i \in DOMAIN console :
               console[i] = <<"P", "summary", g_successes, numTests>>
        /\ logEnabled =>
               \E i \in DOMAIN g_testsLog :
                   g_testsLog[i] = <<"L", "summary", g_successes, numTests>>
        /\ Cardinality(LinesOf(console, "summary")) = 1
        /\ Cardinality(LinesOf(g_testsLog, "summary")) = (IF logEnabled THEN 1 ELSE 0)
        /\ rdbuf = "console"

\* C18: the grouping does not enter the verdict: when the registered names are
\* pairwise distinct, whatever groups they were put in, the total is the number
\* of names, every name is called once, passed is the number of calls that
\* returned and the exit status is pass iff all of them returned.
C18_GroupsDoNotAffectVerdict ==
    (pc = "exited" /\ \A i, j \in DOMAIN regs : regs[i].name = regs[j].name => i = j) =>
        /\ numTests = Len(regs)
        /\ \A r \in DOMAIN regs :
               Cardinality({i \in DOMAIN invoked : invoked[i].name = regs[r].name}) = 1
        /\ g_successes = NumReturned
        /\ (exitCode = <<pass>>) <=> (\A i \in DOMAIN invoked : Returns(invoked[i].does))

\* C18 witness: two names in two different groups, one passed and one failed.
C18_Witness ==
    /\ pc = "exited"
    /\ Len(regs) = 2
    /\ regs[1].name # regs[2].name
    /\ regs[1].group # regs[2].group
    /\ g_successes = 1
    /\ exitCode = <<fail>>

\* C19 as stated: on a successful test passed is incremented and the passed
\* line is on both channels before the redirection is restored.
C19_Original ==
    pc = "pass_restore" =>
        /\ g_successes = NumReturned
        /\ Cardinality(Verdicts(console)) = Len(invoked)

\* C19 as amended: on a successful test the passed line goes to the log (if
\* enabled) first, then the redirection is restored, then the passed line is
\* written towards the console, and only then passed is incremented.
C19_SuccessStepOrder ==
    /\ pc = "pass_restore" =>
           /\ rdbuf # "console"
           /\ g_successes = NumReturned - 1
           /\ Cardinality(Verdicts(console)) < Len(invoked)
           /\ logEnabled =>
                  /\ Len(g_testsLog) >= 2
                  /\ g_testsLog[Len(g_testsLog) - 1] = <<"L", "passed">>
    /\ pc = "pass_print" =>
           /\ rdbuf = "console"
           /\ g_successes = NumReturned - 1
           /\ Cardinality(Verdicts(console)) < Len(invoked)
    /\ pc = "pass_count" =>
           /\ rdbuf = "console"
           /\ g_successes = NumReturned - 1
           /\ ~coutBad => console[Len(console)] = <<"P", "passed">>
    /\ (pc = "next_test" /\ Returns(LastCall.does)) => g_successes = NumReturned

\* C19 witness: with logging enabled the verdict of the first test is on the
\* console and in the log, and passed is still 0.
C19_Witness ==
    /\ pc = "pass_count"
    /\ logEnabled
    /\ console[Len(console)] = <<"P", "passed">>
    /\ \E i \in DOMAIN g_testsLog : g_testsLog[i] = <<"L", "passed">>
    /\ g_successes = 0

\* C20 as stated: on a failure passed is left alone and the line "failed at
\* <location>" is on the console and, with logging enabled, in the log, the
\* location on both being what() of the exception thrown.
C20_Original ==
    (pc = "next_test" /\ Throws(LastCall.does)) =>
        /\ g_successes = NumReturned
        /\ console # <<>>
        /\ console[Len(console)] = <<"P", "failed", What(LastCall.does, LastCall.func)>>
        /\ logEnabled =>
               /\ Len(g_testsLog) >= 2
               /\ g_testsLog[Len(g_testsLog) - 1] =
                      <<"L", "failed", What(LastCall.does, LastCall.func)>>

\* What remains of C17 and C20 while std::cout has no badbit (not a claim of
\* its own: it shows the two fail for no other reason).
SummaryAndFailureLinesWhileGood ==
    ~coutBad => (C17_Original /\ C20_Original)


\* C21: g_successes changes only in the try branch of run_tests, after test()
\* has returned: such a step adds exactly one, happens once per test that
\* returned, and no other step (registration, print_info, the catch branch,
\* print_summary, main's return) changes it; it never decreases.
C21_PassedOnlyCountedOnSuccess ==
    [][ /\ g_successes' >= g_successes
        /\ g_successes' # g_successes =>
               /\ pc = "pass_count"
               /\ Returns(LastCall.does)
               /\ g_successes' = g_successes + 1
               /\ g_successes' = NumReturned
        /\ pc' \in {"next_test", "test_loop", "group_loop", "print_summary",
                    "return", "exited"} => g_successes' = NumReturned' ]_vars

\* C21 witness: a test passed and was counted, the next one failed and left
\* the count alone.
C21_Witness ==
    /\ pc = "return"
    /\ Len(invoked) = 2
    /\ Returns(invoked[1].does)
    /\ Throws(invoked[2].does)
    /\ g_successes = 1


\* C22: the registry is written by the UnitTest constructors only, that is
\* during static initialisation: print_info, run_tests, print_summary and
\* main's return leave its groups, names and functions as they are.
C22_RegistryFrozenAfterRegistration ==
    [][ /\ s_tests' # s_tests => (pc = "static_init" /\ pc' = "static_init")
        /\ pc # "static_init" => (s_tests' = s_tests /\ regs' = regs) ]_vars

\* C22 witness: a run over a registry of two groups came to its end with the
\* registry still holding exactly what was registered.
C22_Witness ==
    /\ pc = "exited"
    /\ size(s_tests) = 2
    /\ Len(invoked) = 2
    /\ Entries(s_tests) = RegisteredKeys

\* C23: get_number_of_tests() is the sum of the group sizes, computed by the
\* first call and returned from the static afterwards: once a call has been
\* made the value never changes, and since the first call comes after the last
\* registration what a call returns is the sum of the group sizes at every
\* point of the run.
C23_TotalComputedOnceAndCached ==
    [][ /\ get_number_of_tests = TotalRegistered
        /\ get_number_of_tests' = TotalRegistered'
        /\ first' => first
        /\ ~first => (numTests' = numTests /\ get_number_of_tests' = numTests)
        /\ (first /\ ~first') => numTests' = TotalRegistered ]_vars

\* C23 witness: main returned after the calls in print_info, print_summary
\* (twice, with logging) and main, the static holding 2 for two groups of one.
C23_Witness ==
    /\ pc = "exited"
    /\ logEnabled
    /\ ~first
    /\ numTests = 2
    /\ size(s_tests) = 2


\* The <<passed, total>> pairs of the summary lines written to a sink.
SummaryCounts(sink) == {<<sink[i][3], sink[i][4]>> : i \in LinesOf(sink, "summary")}

\* C24: print_summary() called again without a test run in between reports
\* the same passed and total as before, on the console and in the log, and
\* no step of it changes g_successes, the total or the registry.
C24_SummaryIdempotent ==
    [][ /\ g_successes' = g_successes
        /\ s_tests' = s_tests
        /\ get_number_of_tests' = get_number_of_tests
        /\ SummaryCounts(console') \subseteq {<<g_successes, TotalRegistered>>}
        /\ SummaryCounts(g_testsLog') \subseteq {<<g_successes, TotalRegistered>>} ]_vars

\* C24 witness: two calls in a row, both on the console and in the log, with
\* one test passed out of two.
C24_Witness ==
    /\ pc = "return"
    /\ Cardinality(LinesOf(console, "summary")) = 2
    /\ Cardinality(LinesOf(g_testsLog, "summary")) = 2
    /\ SummaryCounts(console) = {<<1, 2>>}
    /\ SummaryCounts(g_testsLog) = {<<1, 2>>}


\* The group headers and test entries a sink should show after the first n
\* calls: a header when the group changes, then the entry of the test (on the
\* console "[n] : name", in the log "Test 'name' log:").
IsOutlineLine(line) == line[2] \in {"group", "test", "testlog"}

RECURSIVE ExpectedOutline(_, _)
ExpectedOutline(dest, n) ==
    IF n = 0 THEN <<>>
    ELSE ExpectedOutline(dest, n - 1)
         \o (IF n = 1 \/ invoked[n - 1].group # invoked[n].group
             THEN << <<dest, "group", invoked[n].group>> >>
             ELSE <<>>)
         \o (IF dest = "P"
             THEN << <<"P", "test", n, invoked[n].name>> >>
             ELSE << <<"L", "testlog", invoked[n].name>> >>)

\* The calls of one group follow each other.
GroupsContiguous ==
    \A i, j, k \in DOMAIN invoked :
        (i < j /\ j < k /\ invoked[i].group = invoked[k].group) =>
            invoked[j].group = invoked[i].group

\* C25 as stated: when the loops of run_tests are over, the console and (with
\* logging) the log show each group's header exactly once, before the entries
\* of the group's tests, and the entries of a group are not interrupted by
\* another group's.
C25_Original ==
    pc = "print_summary" =>
        /\ GroupsContiguous
        /\ {invoked[i].group : i \in DOMAIN invoked} = DOMAIN s_tests
        /\ \A g \in DOMAIN s_tests :
               Cardinality({i \in DOMAIN console : console[i] = <<"P", "group", g>>}) = 1
        /\ \A i \in LinesOf(console, "test") :
               \E h \in 1..(i - 1) :
                   console[h] = <<"P", "group", invoked[console[i][3]].group>>
        /\ logEnabled =>
               SelectSeq(g_testsLog, IsOutlineLine) = ExpectedOutline("L", Len(invoked))

\* What remains of C25 while std::cout has no badbit (not a claim of its
\* own: it shows C25 fails for no other reason).
GroupOutlineWhileGood ==
    ~coutBad =>
        /\ C25_Original
        /\ pc = "print_summary" =>
               SelectSeq(console, IsOutlineLine) = ExpectedOutline("P", Len(invoked))


\* The verdict of the n-th call as the runner words it for a channel.
VerdictLine(dest, n) ==
    IF Returns(invoked[n].does) THEN <<dest, "passed">>
    ELSE <<dest, "failed", What(invoked[n].does, invoked[n].func)>>

\* The record of the n-th call in the log file.
Record(n) ==
    << print_line_separator("L"), <<"L", "testlog", invoked[n].name>> >>
    \o (IF Prints(invoked[n].does)
        THEN << <<"T", "output", invoked[n].func>> >>
        ELSE <<>>)
    \o << VerdictLine("L", n), print_line_separator("L") >>

\* The log file after the first n calls have been classified.
RECURSIVE ExpectedLog(_)
ExpectedLog(n) ==
    IF n = 0 THEN <<>>
    ELSE ExpectedLog(n - 1)
         \o (IF n = 1 \/ invoked[n - 1].group # invoked[n].group
             THEN << <<"L", "group", invoked[n].group>> >>
             ELSE <<>>)
         \o Record(n)

IsVerdictLine(line) == line[2] \in {"passed", "failed"}

\* The last call has been classified in the log / on the console as well.
RecordClosed ==
    \/ pc \in {"pass_restore", "pass_print", "pass_count", "catch_restore",
               "catch_print", "next_test", "group_loop", "print_summary"}
    \/ pc = "test_loop" /\ testsDone # {}

VerdictPrinted ==
    \/ pc \in {"pass_count", "next_test", "group_loop", "print_summary"}
    \/ pc = "test_loop" /\ testsDone # {}

\* C26: with logging enabled the log file is, group header aside, one record
\* per classified test in the order of the calls, never interleaved: banner,
\* "Test '<name>' log:", what the test printed, the pass/fail line, separator;
\* and the verdict in the record is the verdict printed on the console.
C26_LogRecordPerTest ==
    logEnabled =>
        /\ RecordClosed => g_testsLog = ExpectedLog(Len(invoked))
        /\ VerdictPrinted =>
               SelectSeq(console, IsVerdictLine) =
                   [n \in 1..Len(invoked) |-> VerdictLine("P", n)]

\* C26 witness: two records, one of a test that printed and passed, one of a
\* test that printed and failed an assertion.
C26_Witness ==
    /\ logEnabled
    /\ pc = "print_summary"
    /\ Len(invoked) = 2
    /\ invoked[1].does = "print_pass"
    /\ invoked[2].does = "assert"
    /\ g_testsLog = ExpectedLog(2)


\* Every call made so far has been classified as passed or failed.
AllClassified ==
    /\ \A i \in DOMAIN invoked : Returns(invoked[i].does) \/ Throws(invoked[i].does)
    /\ idx = Len(invoked)
    /\ g_successes = NumReturned

InSummary ==
    \/ pc \in {"print_summary", "summary_redirect", "summary_log",
               "summary_restore", "return"}
    \/ pc = "exited" /\ s_tests # EmptyMap

\* C27: the run goes through print_info, then the tests one after the other,
\* then print_summary: no test is called before the counts have been printed,
\* a test is only started when all earlier ones have been classified, and the
\* summary is only printed when every registered test has been classified.
C27_StrictlySequentialPhases ==
    /\ pc \in {"static_init", "print_info"} => (invoked = <<>> /\ console = <<>>)
    /\ invoked # <<>> =>
           (Len(console) >= 3 /\ console[3] = <<"P", "found", TotalRegistered, size(s_tests)>>)
    /\ pc \in {"test_loop", "capture", "invoke"} => AllClassified
    /\ pc \in {"pass_log", "pass_restore", "pass_print", "pass_count",
               "catch_log", "catch_restore", "catch_print"} =>
           (idx = Len(invoked) - 1 /\ invoked[Len(invoked)].name = curName)
    /\ InSummary => (AllClassified /\ Len(invoked) = TotalRegistered)
    /\ (LinesOf(console, "summary") # {} \/ LinesOf(g_testsLog, "summary") # {}) =>
           InSummary

\* C27 witness: counts, two tests and the summary, in this order.
C27_Witness ==
    /\ pc = "return"
    /\ Len(invoked) = 2
    /\ console[3][2] = "found"
    /\ \E i \in LinesOf(console, "summary") :
           \A j \in DOMAIN console : IsVerdictLine(console[j]) => j < i


\* The positions at which std::cout points at a sink.
Redirected ==
    pc \in {"group_log_restore", "invoke", "pass_log", "pass_restore",
            "catch_log", "catch_restore", "summary_log", "summary_restore",
            "terminated", "hung", "crashed"}

\* C28: a redirection (for a group header, a test or the summary) only ever
\* starts while std::cout points at the console buffer, so the buffer saved
\* is always the console's and redirections are never nested; between two
\* tests std::cout points at the console buffer.
C28_CaptureSingleLevel ==
    /\ pc \in {"group_log", "capture", "summary_redirect"} => rdbuf = "console"
    /\ pc \in {"test_loop", "next_test", "group_loop"} => rdbuf = "console"
    /\ coutBuffer \in {"none", "console"}
    /\ sumBuffer \in {"none", "console"}
    /\ rdbuf # "console" => Redirected

\* C28 witness: the capture of a second test is about to begin, after the
\* header of its group and the first test have been redirected and restored.
C28_Witness ==
    /\ pc = "capture"
    /\ logEnabled
    /\ Len(invoked) = 1
    /\ rdbuf = "console"
    /\ coutBuffer = "console"


\* C29: once a test function that never returns has been called the run stays
\* where it is: no step follows, so no other test is called, g_successes keeps
\* its value, std::cout keeps pointing at the sink, and neither the summary
\* nor a return value of main is ever produced.
C29_HangingTestBlocksRun ==
    [][ /\ pc # "hung"
        /\ (invoked' # <<>> /\ LastCall'.does = "hang") =>
               /\ pc' = "hung"
               /\ rdbuf' # "console"
               /\ g_successes' = NumReturned'
               /\ exitCode' = <<>>
               /\ LinesOf(console', "summary") = {}
               /\ LinesOf(g_testsLog', "summary") = {} ]_vars

\* C29 witness: the second test of a run hangs after the first has passed.
C29_Witness ==
    /\ pc = "hung"
    /\ Len(invoked) = 2
    /\ invoked[2].does = "hang"
    /\ g_successes = 1
    /\ rdbuf # "console"


\* The registry built by running the constructors of rs in the given order
\* (a sequence of indices into rs).
RECURSIVE RegisterAll(_, _)
RegisterAll(rs, order) ==
    IF order = <<>> THEN EmptyMap
    ELSE LET r == rs[order[Len(order)]]
         IN  RegistryAfter(RegisterAll(rs, SubSeq(order, 1, Len(order) - 1)),
                           r.name, r.func, r.group)

\* All orders in which n static initialisers can run.
Orders(n) == {p \in [1..n -> 1..n] : \A i, j \in 1..n : p[i] = p[j] => i = j}

DistinctKeys == \A i, j \in DOMAIN regs :
                    (regs[i].group = regs[j].group /\ regs[i].name = regs[j].name) => i = j

\* C30: a registration always leaves its group and its entry in the registry,
\* and when the (group, name) keys are pairwise distinct the registry does not
\* depend on the order in which the constructors ran: every order gives the
\* same groups, names and functions, hence the same total and group count.
C30_RegistrationOrderIrrelevant ==
    pc = "static_init" =>
        /\ \A i \in DOMAIN regs :
               /\ contains(s_tests, regs[i].group)
               /\ contains(s_tests[regs[i].group], regs[i].name)
        /\ regs # <<>> => s_tests[regs[Len(regs)].group][regs[Len(regs)].name] = Len(regs)
        /\ DistinctKeys =>
               /\ \A p \in Orders(Len(regs)) : RegisterAll(regs, p) = s_tests
               /\ TotalRegistered = Len(regs)
               /\ size(s_tests) = Cardinality({regs[i].group : i \in DOMAIN regs})

\* C30 witness: two different names registered in the same group, where the
\* second constructor finds the group already there.
C30_Witness ==
    /\ pc = "static_init"
    /\ Len(regs) = 2
    /\ regs[1].group = regs[2].group
    /\ regs[1].name # regs[2].name
    /\ size(s_tests[regs[1].group]) = 2


\* The registry entries whose test function returned when it was called.
EntriesReturned ==
    {e \in Entries(s_tests) :
        \E i \in CallsOf(e[1], e[2]) : Returns(invoked[i].does)}

\* C31: whatever order the two range-for loops enumerate groups and tests in,
\* main returns with the same numbers: the total is the number of entries,
\* passed is the number of entries whose function returned, and the exit
\* status is pass iff that is all of them; none of the three refers to the
\* position of an entry in the enumeration.
C31_EnumerationOrderIrrelevant ==
    (pc = "exited" /\ s_tests # EmptyMap) =>
        /\ numTests = Cardinality(Entries(s_tests))
        /\ \A e \in Entries(s_tests) : Cardinality(CallsOf(e[1], e[2])) = 1
        /\ g_successes = Cardinality(EntriesReturned)
        /\ (exitCode = <<pass>>) <=> (EntriesReturned = Entries(s_tests))
        /\ (exitCode = <<fail>>) <=> (EntriesReturned # Entries(s_tests))

\* C31 witness: the entry registered last was enumerated first and failed,
\* the entry registered first then passed (the reverse order is C21's witness).
C31_Witness ==
    /\ pc = "exited"
    /\ Len(invoked) = 2
    /\ invoked[1].func = 2
    /\ invoked[2].func = 1
    /\ Throws(invoked[1].does)
    /\ Returns(invoked[2].does)
    /\ g_successes = 1
    /\ exitCode = <<fail>>


\* The calls classified as failed: those that ended in the catch branch.
NumFailed == Cardinality({i \in DOMAIN invoked : Throws(invoked[i].does)})

\* Between two tests: before the first, after idx++ of each, after the loops.
AtTestBoundary ==
    pc \in {"group_loop", "group_log", "group_log_restore", "test_loop",
            "print_summary"}

\* C32: at every test boundary passed plus the number of tests classified as
\* failed is the number of tests called so far, which is the running index;
\* and when main returns after a run, passed is the number of registered tests
\* whose function returned normally.
C32_PassedPlusFailedIsIndex ==
    /\ AtTestBoundary =>
           /\ g_successes + NumFailed = idx
           /\ idx = Len(invoked)
    /\ (pc = "exited" /\ s_tests # EmptyMap) =>
           /\ g_successes + NumFailed = get_number_of_tests
           /\ g_successes =
                  Cardinality({r \in DOMAIN regs :
                      \E i \in DOMAIN invoked : /\ invoked[i].func = r
                                                /\ Returns(invoked[i].does)})

\* C32 witness: after two tests, one passed and one failed, the index is 2.
C32_Witness ==
    /\ pc = "test_loop"
    /\ idx = 2
    /\ g_successes = 1
    /\ NumFailed = 1


\* Some test function called so far did not come back to run_tests' try
\* block or to its catch clause.
SomeCallDidNotTerminate ==
    \E i \in DOMAIN invoked : invoked[i].does \in {"unknown", "hang"}

\* main has returned after as many calls as there are tests, the summary
\* with the final numbers on the console.
DoneWithSummary ==
    /\ pc = "exited"
    /\ exitCode # <<>>
    /\ Len(invoked) = TotalRegistered
    /\ s_tests # EmptyMap =>
           \E i \in DOMAIN console :
               console[i] = <<"P", "summary", g_successes, TotalRegistered>>

\* C33 as stated: if every test function called returns or throws a
\* std::exception, the run eventually is over after as many calls as there
\* are tests, with the summary printed and a return value of main.
C33_Original ==
    <>(SomeCallDidNotTerminate \/ DoneWithSummary)

\* What remains of C33 when no test has printed through the null stream
\* buffer (not a claim of its own: it shows C33 fails for no other reason).
EventuallyDoneUnlessNullWrite ==
    <>(SomeCallDidNotTerminate \/ DoneWithSummary \/ coutBad \/ pc = "crashed")


\* C34: every group of the registry holds at least one test, since the
\* constructor that creates a group also inserts its test into it; so there
\* are no groups iff there are no tests, and main's early return (taken on
\* 'no groups') is taken exactly when the total is 0.
C34_NoEmptyGroup ==
    /\ \A g \in DOMAIN s_tests : size(s_tests[g]) >= 1
    /\ (size(s_tests) = 0) <=> (TotalRegistered = 0)
    /\ size(s_tests) <= TotalRegistered
    /\ pc = "check_empty" => ((size(s_tests) = 0) <=> (numTests = 0))
    /\ (pc = "exited" /\ invoked = <<>>) => (numTests = 0 /\ regs = <<>>)
    /\ pc \in {"run_tests", "group_loop", "test_loop"} => numTests >= 1

\* C34 witness: two constructors made two groups of one test each, and main
\* went past the early return.
C34_Witness ==
    /\ pc = "run_tests"
    /\ size(s_tests) = 2
    /\ \A g \in DOMAIN s_tests : size(s_tests[g]) = 1
    /\ numTests = 2


\* C35: when a test function throws something that is not a std::exception,
\* nothing switches std::cout back: where the run ends, std::cout still points
\* at the sink of the capture (the log file's buffer, or no buffer when
\* logging is disabled) and not at the console buffer run_tests had saved.
C35_UnknownErrorLeavesRedirection ==
    pc = "terminated" =>
        /\ LastCall.does = "unknown"
        /\ coutBuffer = "console"
        /\ rdbuf # coutBuffer
        /\ rdbuf = (IF logEnabled THEN "log" ELSE "null")

\* C35 witness: with logging, the second test throws an unknown error after
\* the first one's capture had been undone; std::cout stays on the log file.
C35_Witness ==
    /\ pc = "terminated"
    /\ logEnabled
    /\ Len(invoked) = 2
    /\ rdbuf = "log"


\* C36 as stated: a test function that throws a std::exception of its own
\* (not through bTEST_ASSERT) is handled like a failed assertion: the console
\* and, with logging, the log report it as failed at e.what(), g_successes is
\* left alone, std::cout points at the console again and the loop goes on.
C36_Original ==
    (pc = "next_test" /\ LastCall.does = "stdexc") =>
        /\ g_successes = NumReturned
        /\ rdbuf = "console"
        /\ e_what = <<"none">>
        /\ console[Len(console)] = <<"P", "failed", What("stdexc", LastCall.func)>>
        /\ logEnabled =>
               /\ Len(g_testsLog) >= 2
               /\ g_testsLog[Len(g_testsLog) - 1] =
                      <<"L", "failed", What("stdexc", LastCall.func)>>

\* What remains of C36 while std::cout has no badbit (not a claim of its own:
\* it shows C36 fails for no other reason), and the run going on after it.
StdExceptionFailureWhileGood ==
    /\ ~coutBad => C36_Original
    /\ \A i \in DOMAIN invoked :
           (invoked[i].does = "stdexc" /\ pc = "exited") => Len(invoked) = TotalRegistered

====
